---------------------------- MODULE Spec2Model ----------------------------
(***************************************************************************)
(* RawSpeed, parsers/TiffParser.cpp: parseTiff (container sniffing and the *)
(* walk of the top-level directory chain) and makeDecoder (the ordered     *)
(* decoder dispatch and the hand-over of the directory tree).              *)
(*                                                                         *)
(* Strings are sequences of one-character strings, so that trimming, case  *)
(* and containment are computed and not assumed.  Offsets of the container *)
(* are held decoded; the two magic bytes are held as bytes and decoded in  *)
(* the byte order the marker establishes.                                  *)
(***************************************************************************)
EXTENDS Integers, Sequences, FiniteSets, TLC

VARIABLES
    \* ---- parseTiff ----
    hdr,        \* the container header: byte-order marker, magic bytes, first offset
    table,      \* offset -> next-directory offset of the directory stored there
    pcP,        \* position in parseTiff
    endian,     \* byte order established by the marker
    magic,      \* the magic value as read by getShort
    rootP,      \* the TiffRootIFD allocated by parseTiff: none/owned/returned/freed
    subIFDs,    \* root->getSubIFDs(): the top-level directories appended so far
    nextIFD,    \* the loop variable of the walk
    errP,       \* the failure parseTiff ended with
    \* ---- makeDecoder ----
    root,       \* the tree handed to makeDecoder (_root)
    pc,         \* position in makeDecoder
    owner,      \* who holds the tree: unique_ptr/raw/decoder/freed/leaked/none
    idx,        \* position of the Make loop in getIFDsWithTag(MAKE)
    consulted,  \* the positions the Make loop has visited
    selected,   \* the decoder variant whose constructor was called
    rule,       \* the rule that selected it: dng/make/software
    ctorErr,    \* what the selected constructor threw
    result,     \* the decoder returned
    err         \* the failure makeDecoder ended with

varsP == <<hdr, table, pcP, endian, magic, rootP, subIFDs, nextIFD, errP>>
varsD == <<root, pc, owner, idx, consulted, selected, rule, ctorErr, result, err>>
vars == <<varsP, varsD>>

---------------------------------------------------------------------------
(* Bounds of the model *)

\* top-level directories of a tree handed to makeDecoder
MaxDirs == 2
\* offsets inside the buffer at which a directory can be constructed
MaxOff == 3
\* hops after which the model stops following a chain that never ends
MaxHops == 6

---------------------------------------------------------------------------
(* Strings *)

s_Canon ==
    <<"C", "a", "n", "o", "n">>
s_FUJIFILM ==
    <<"F", "U", "J", "I", "F", "I", "L", "M">>
s_NIKON_CORPORATION ==
    <<"N", "I", "K", "O", "N", " ", "C", "O", "R", "P", "O", "R", "A", "T", "I", "O", "N">>
s_NIKON ==
    <<"N", "I", "K", "O", "N">>
s_OLYMPUS_IMAGING_CORP ==
    <<"O", "L", "Y", "M", "P", "U", "S", " ", "I", "M", "A", "G", "I", "N", "G", " ", "C", "O", "R", "P", ".">>
s_OLYMPUS_CORPORATION ==
    <<"O", "L", "Y", "M", "P", "U", "S", " ", "C", "O", "R", "P", "O", "R", "A", "T", "I", "O", "N">>
s_OLYMPUS_OPTICAL_CO_LTD ==
    <<"O", "L", "Y", "M", "P", "U", "S", " ", "O", "P", "T", "I", "C", "A", "L", " ", "C", "O", ".", ",", "L", "T", "D">>
s_SONY ==
    <<"S", "O", "N", "Y">>
s_PENTAX_Corporation ==
    <<"P", "E", "N", "T", "A", "X", " ", "C", "o", "r", "p", "o", "r", "a", "t", "i", "o", "n">>
s_RICOH_IMAGING_COMPANY_LTD ==
    <<"R", "I", "C", "O", "H", " ", "I", "M", "A", "G", "I", "N", "G", " ", "C", "O", "M", "P", "A", "N", "Y", ",", " ", "L", "T", "D", ".">>
s_PENTAX ==
    <<"P", "E", "N", "T", "A", "X">>
s_Panasonic ==
    <<"P", "a", "n", "a", "s", "o", "n", "i", "c">>
s_LEICA ==
    <<"L", "E", "I", "C", "A">>
s_SAMSUNG ==
    <<"S", "A", "M", "S", "U", "N", "G">>
s_Mamiya_OP_Co_Ltd ==
    <<"M", "a", "m", "i", "y", "a", "-", "O", "P", " ", "C", "o", ".", ",", "L", "t", "d", ".">>
s_Kodak ==
    <<"K", "o", "d", "a", "k">>
s_DCS560C ==
    <<"D", "C", "S", "5", "6", "0", "C">>
s_KODAK ==
    <<"K", "O", "D", "A", "K">>
s_EASTMAN_KODAK_COMPANY ==
    <<"E", "A", "S", "T", "M", "A", "N", " ", "K", "O", "D", "A", "K", " ", "C", "O", "M", "P", "A", "N", "Y">>
s_SEIKO_EPSON_CORP ==
    <<"S", "E", "I", "K", "O", " ", "E", "P", "S", "O", "N", " ", "C", "O", "R", "P", ".">>
s_Hasselblad ==
    <<"H", "a", "s", "s", "e", "l", "b", "l", "a", "d">>
s_Leaf ==
    <<"L", "e", "a", "f">>
s_Phase_One_A_S ==
    <<"P", "h", "a", "s", "e", " ", "O", "n", "e", " ", "A", "/", "S">>
s_Camera_Library ==
    <<"C", "a", "m", "e", "r", "a", " ", "L", "i", "b", "r", "a", "r", "y">>
in_canon ==
    <<"c", "a", "n", "o", "n">>
in_CANON ==
    <<"C", "A", "N", "O", "N">>
in_Canon_EOS ==
    <<"C", "a", "n", "o", "n", " ", "E", "O", "S">>
in_Cano ==
    <<"C", "a", "n", "o">>
in_kodak ==
    <<"k", "o", "d", "a", "k">>
in_Nikon ==
    <<"N", "i", "k", "o", "n">>
in_EASTMAN_KODAK ==
    <<"E", "A", "S", "T", "M", "A", "N", " ", "K", "O", "D", "A", "K">>
in_Acme ==
    <<"A", "c", "m", "e">>
in_dcs560c ==
    <<"d", "c", "s", "5", "6", "0", "c">>
in_DCS560 ==
    <<"D", "C", "S", "5", "6", "0">>
in_camera_library ==
    <<"c", "a", "m", "e", "r", "a", " ", "l", "i", "b", "r", "a", "r", "y">>
in_Camera_Library_2 ==
    <<"C", "a", "m", "e", "r", "a", " ", "L", "i", "b", "r", "a", "r", "y", " ", "2">>

None == "none"

IsSpace(c) == c \in {" ", "\t"}

RECURSIVE DropLeading(_)
DropLeading(s) ==
    IF s = <<>> THEN <<>>
    ELSE IF IsSpace(Head(s)) THEN DropLeading(Tail(s))
    ELSE s

RECURSIVE DropTrailing(_)
DropTrailing(s) ==
    IF s = <<>> THEN <<>>
    ELSE IF IsSpace(s[Len(s)]) THEN DropTrailing(SubSeq(s, 1, Len(s) - 1))
    ELSE s

\* Common.h TrimSpaces: leading and trailing spaces and tabs removed
TrimSpaces(s) == DropTrailing(DropLeading(s))

LowerCase == <<"a", "b", "c", "d", "e", "f", "g", "h", "i", "j", "k", "l", "m",
               "n", "o", "p", "q", "r", "s", "t", "u", "v", "w", "x", "y", "z">>
UpperCase == <<"A", "B", "C", "D", "E", "F", "G", "H", "I", "J", "K", "L", "M",
               "N", "O", "P", "Q", "R", "S", "T", "U", "V", "W", "X", "Y", "Z">>

ToUpperChar(c) ==
    IF \E i \in DOMAIN LowerCase : LowerCase[i] = c
    THEN UpperCase[CHOOSE i \in DOMAIN LowerCase : LowerCase[i] = c]
    ELSE c

ToUpper(s) == [i \in 1..Len(s) |-> ToUpperChar(s[i])]

\* a occurs in b as a contiguous run of characters
IsInfix(a, b) ==
    \E i \in 1..(Len(b) - Len(a) + 1) : SubSeq(b, i, i + Len(a) - 1) = a

---------------------------------------------------------------------------
(* The directory tree (tiff/TiffIFD.h, tiff/TiffEntry.h) *)

MAKE == "MAKE"
MODEL == "MODEL"
SOFTWARE == "SOFTWARE"
DNGVERSION == "DNGVERSION"

\* an entry slot of a directory: no entry, an ASCII entry, or an entry of
\* another type (SHORT for the string tags, BYTE for the DNG version)
Absent == [type |-> "absent", data |-> <<>>]
Ascii(s) == [type |-> "ASCII", data |-> s]
Short == [type |-> "SHORT", data |-> <<>>]
Bytes == [type |-> "BYTE", data |-> <<>>]

IFD(make, model, software, dng, subs) ==
    [null |-> FALSE, make |-> make, model |-> model, software |-> software,
     dng |-> dng, subIFDs |-> subs]

\* the sentinel root: no entries of its own, owns the top-level directories
TiffRootIFD(subs) == IFD(Absent, Absent, Absent, Absent, subs)

\* an empty TiffRootIFDOwner
NullRoot == [TiffRootIFD(<<>>) EXCEPT !.null = TRUE]

getEntry(ifd, tag) ==
    CASE tag = MAKE -> ifd.make
      [] tag = MODEL -> ifd.model
      [] tag = SOFTWARE -> ifd.software
      [] tag = DNGVERSION -> ifd.dng

hasEntry(ifd, tag) == getEntry(ifd, tag) # Absent

RECURSIVE getEntryRecursive(_, _)
RECURSIVE getEntryRecursiveIn(_, _)
\* the directory's own entry, else the first found in its sub-directories,
\* depth first; Absent stands for nullptr
getEntryRecursive(ifd, tag) ==
    IF hasEntry(ifd, tag) THEN getEntry(ifd, tag)
    ELSE getEntryRecursiveIn(ifd.subIFDs, tag)

getEntryRecursiveIn(subs, tag) ==
    IF subs = <<>> THEN Absent
    ELSE LET e == getEntryRecursive(Head(subs), tag)
         IN  IF e # Absent THEN e ELSE getEntryRecursiveIn(Tail(subs), tag)

hasEntryRecursive(ifd, tag) == getEntryRecursive(ifd, tag) # Absent

\* the top-level directories holding the tag, in chain order
getIFDsWithTag(r, tag) == SelectSeq(r.subIFDs, LAMBDA d : hasEntry(d, tag))

\* TiffEntry::getString: the string of an ASCII entry, a failure otherwise
getString(e) == [ok |-> e.type = "ASCII", str |-> e.data]

---------------------------------------------------------------------------
(* makeDecoder *)

NoErr == [type |-> None, msg |-> None]

TiffParserException(m) == [type |-> "TiffParserException", msg |-> m]

\* std::runtime_error and the classes derived from it
IsRuntimeError(t) ==
    t \in {"std::runtime_error", "TiffParserException", "RawDecoderException",
           "IOException"}

\* what a decoder constructor can throw
CtorFailures ==
    { [type |-> "RawDecoderException", msg |-> "unsupported image format"],
      [type |-> "TiffParserException", msg |-> "entry not found"],
      [type |-> "IOException", msg |-> "out of bounds access in ByteStream"] }

CtorOutcomes == {NoErr} \cup CtorFailures

\* operator== of std::string against a literal, as a letter-case blind
\* comparison would have it
StrEqNoCase(a, b) == ToUpper(a) = ToUpper(b)

\* operator== of std::string against a literal
StrEq(a, b) == a = b

\* the Kodak rule with its two branches exchanged
KodakRuleSwapped(model) ==
    IF StrEq(model, s_DCS560C) THEN "DcrDecoder" ELSE "Cr2Decoder"

\* the Kodak rule: the one rule that reads the Model
KodakRule(model) ==
    IF StrEq(model, s_DCS560C) THEN "Cr2Decoder" ELSE "DcrDecoder"

\* the rule table on the trimmed Make and Model, top to bottom
MakeRule(make, model) ==
    IF StrEq(make, s_Canon) THEN "Cr2Decoder"
    ELSE IF StrEq(make, s_FUJIFILM) THEN "RafDecoder"
    ELSE IF StrEq(make, s_NIKON_CORPORATION) \/ StrEq(make, s_NIKON)
         THEN "NefDecoder"
    ELSE IF \/ StrEq(make, s_OLYMPUS_IMAGING_CORP)
            \/ StrEq(make, s_OLYMPUS_CORPORATION)
            \/ StrEq(make, s_OLYMPUS_OPTICAL_CO_LTD)
         THEN "OrfDecoder"
    ELSE IF StrEq(make, s_SONY) THEN "ArwDecoder"
    ELSE IF \/ StrEq(make, s_PENTAX_Corporation)
            \/ StrEq(make, s_RICOH_IMAGING_COMPANY_LTD)
            \/ StrEq(make, s_PENTAX)
         THEN "PefDecoder"
    ELSE IF StrEq(make, s_Panasonic) \/ StrEq(make, s_LEICA) THEN "Rw2Decoder"
    ELSE IF StrEq(make, s_SAMSUNG) THEN "SrwDecoder"
    ELSE IF StrEq(make, s_Mamiya_OP_Co_Ltd) THEN "MefDecoder"
    ELSE IF StrEq(make, s_Kodak)
         THEN KodakRule(model)
    ELSE IF StrEq(make, s_KODAK) THEN "DcsDecoder"
    ELSE IF StrEq(make, s_EASTMAN_KODAK_COMPANY) THEN "KdcDecoder"
    ELSE IF StrEq(make, s_SEIKO_EPSON_CORP) THEN "ErfDecoder"
    ELSE IF StrEq(make, s_Hasselblad) THEN "ThreefrDecoder"
    ELSE IF StrEq(make, s_Leaf) \/ StrEq(make, s_Phase_One_A_S)
         THEN "MosDecoder"
    ELSE None

\* a fallback that takes any Software entry for a Leaf camera
SoftwareRuleAny(software) == "MosDecoder"

\* the Software fallback on the trimmed Software
SoftwareRule(software) ==
    IF StrEq(software, s_Camera_Library) THEN "MosDecoder" ELSE None

\* a DNG rule that looks at the top-level directories only
IsDngTopLevel(r) ==
    \E i \in 1..Len(r.subIFDs) : hasEntry(r.subIFDs[i], DNGVERSION)

\* the DNG rule
IsDng(r) == hasEntryRecursive(r, DNGVERSION)

\* a catch clause that rethrows under its own type with a message of its own
DngCatchLosesMessage(e) ==
    IF IsRuntimeError(e.type) THEN TiffParserException("DNG decoder failed") ELSE e

\* the catch clause around the DNG constructor
DngCatch(e) ==
    IF IsRuntimeError(e.type) THEN TiffParserException(e.msg) ELSE e

\* a scan that gives up after the first Make-bearing directory
MakeLoopDoneAfterFirst(i, ifds) == i > Len(ifds) \/ i > 1

\* the range-for over getIFDsWithTag(MAKE) is exhausted
MakeLoopDone(i, ifds) == i > Len(ifds)

\* an exception leaving makeDecoder: the raw pointer root has no destructor,
\* so a tree it still holds stays allocated with nobody owning it
Unwind(o) == IF o = "raw" THEN "leaked" ELSE o

\* a decoder constructor that throws: the tree was handed to the decoder's
\* base, whose destruction releases it
CtorFailureOwner == "freed"

Throw(e) ==
    /\ pc' = "failed"
    /\ err' = e
    /\ owner' = Unwind(owner)
    /\ UNCHANGED <<selected, rule, ctorErr, result>>

\* new <variant>(root, mInput), selected by rule r, the constructor ending as out
Construct(variant, r, out) ==
    /\ selected' = variant
    /\ rule' = r
    /\ ctorErr' = out
    /\ IF out = NoErr
       THEN /\ result' = variant
            /\ owner' = "decoder"
            /\ pc' = "returned"
            /\ err' = NoErr
       ELSE /\ result' = None
            /\ owner' = CtorFailureOwner
            /\ pc' = "failed"
            /\ err' = IF r = "dng" THEN DngCatch(out) ELSE out

\* lines 77-80
MD_Release ==
    /\ pc = "entry"
    /\ IF root.null
       THEN /\ pc' = "failed"
            /\ err' = TiffParserException("TiffIFD is null.")
            /\ owner' = "none"
       ELSE /\ pc' = "dng"
            /\ err' = NoErr
            /\ owner' = "raw"
    /\ UNCHANGED <<root, idx, consulted, selected, rule, ctorErr, result>>
    /\ UNCHANGED varsP

\* lines 82-89
MD_Dng ==
    /\ pc = "dng"
    /\ IF IsDng(root)
       THEN \E out \in CtorOutcomes : Construct("DngDecoder", "dng", out)
       ELSE /\ pc' = "make"
            /\ UNCHANGED <<owner, selected, rule, ctorErr, result, err>>
    /\ UNCHANGED <<root, idx, consulted>>
    /\ UNCHANGED varsP

\* lines 91-149, one iteration of the loop (or its end)
MD_Make ==
    /\ pc = "make"
    /\ LET ifds == getIFDsWithTag(root, MAKE)
       IN  IF MakeLoopDone(idx, ifds)
           THEN /\ pc' = "software"
                /\ UNCHANGED <<owner, idx, consulted, selected, rule, ctorErr,
                               result, err>>
           ELSE LET ifd == ifds[idx]
                    mk == getString(getEntry(ifd, MAKE))
                    md == IF hasEntry(ifd, MODEL)
                          THEN getString(getEntry(ifd, MODEL))
                          ELSE [ok |-> TRUE, str |-> <<>>]
                IN  /\ consulted' = Append(consulted, idx)
                    /\ IF ~mk.ok \/ ~md.ok
                       THEN /\ Throw(TiffParserException("getString: Wrong type"))
                            /\ UNCHANGED idx
                       ELSE LET v == MakeRule(TrimSpaces(mk.str), TrimSpaces(md.str))
                            IN  IF v = None
                                THEN /\ idx' = idx + 1
                                     /\ UNCHANGED <<pc, owner, selected, rule,
                                                    ctorErr, result, err>>
                                ELSE /\ \E out \in CtorOutcomes :
                                            Construct(v, "make", out)
                                     /\ UNCHANGED idx
    /\ UNCHANGED root
    /\ UNCHANGED varsP

\* lines 151-159
MD_Software ==
    /\ pc = "software"
    /\ LET softwareIFD == getEntryRecursive(root, SOFTWARE)
       IN  IF softwareIFD = Absent
           THEN /\ pc' = "nodecoder"
                /\ UNCHANGED <<owner, selected, rule, ctorErr, result, err>>
           ELSE LET sw == getString(softwareIFD)
                IN  IF ~sw.ok
                    THEN Throw(TiffParserException("getString: Wrong type"))
                    ELSE LET v == SoftwareRule(TrimSpaces(sw.str))
                         IN  IF v = None
                             THEN /\ pc' = "nodecoder"
                                  /\ UNCHANGED <<owner, selected, rule, ctorErr,
                                                 result, err>>
                             ELSE \E out \in CtorOutcomes :
                                     Construct(v, "software", out)
    /\ UNCHANGED <<root, idx, consulted>>
    /\ UNCHANGED varsP

\* lines 161-164: delete root, then the throw
MD_NoDecoder ==
    /\ pc = "nodecoder"
    /\ pc' = "failed"
    /\ owner' = "freed"
    /\ err' = TiffParserException("No decoder found. Sorry.")
    /\ UNCHANGED <<root, idx, consulted, selected, rule, ctorErr, result>>
    /\ UNCHANGED varsP

---------------------------------------------------------------------------
(* The trees makeDecoder is run on *)

SP == <<" ">>
TAB == <<"\t">>

TableMakes ==
    { s_Canon, s_FUJIFILM, s_NIKON_CORPORATION, s_NIKON, s_OLYMPUS_IMAGING_CORP,
      s_OLYMPUS_CORPORATION, s_OLYMPUS_OPTICAL_CO_LTD, s_SONY, s_PENTAX_Corporation,
      s_RICOH_IMAGING_COMPANY_LTD, s_PENTAX, s_Panasonic, s_LEICA, s_SAMSUNG,
      s_Mamiya_OP_Co_Ltd, s_Kodak, s_KODAK, s_EASTMAN_KODAK_COMPANY,
      s_SEIKO_EPSON_CORP, s_Hasselblad, s_Leaf, s_Phase_One_A_S }

\* Make strings as stored: the table's literals bare and padded, and strings
\* that differ from a literal in case, or contain or are contained in one
MakeInputs ==
    TableMakes \cup
    { SP \o s_Canon \o SP \o TAB, s_Kodak \o TAB, SP \o SP \o s_KODAK,
      s_EASTMAN_KODAK_COMPANY \o SP,
      in_canon, in_CANON, in_Canon_EOS, in_Cano, in_kodak, in_Nikon,
      in_EASTMAN_KODAK, in_Acme, <<>>, SP }

ModelInputs ==
    { s_DCS560C, SP \o s_DCS560C \o SP, in_DCS560, in_dcs560c }

SoftwareInputs ==
    { s_Camera_Library, TAB \o s_Camera_Library \o SP, in_camera_library,
      in_Camera_Library_2 }

LeafDir(make, model, software, dng) == IFD(make, model, software, dng, <<>>)

\* the directories that may stand at every position of a tree
CoreDirs ==
    { LeafDir(Ascii(SP \o s_Canon \o SP \o TAB), Absent, Absent, Absent),
      LeafDir(Ascii(in_Acme), Absent, Absent, Absent),
      LeafDir(Ascii(in_canon), Absent, Absent, Absent),
      LeafDir(Ascii(s_Kodak), Ascii(SP \o s_DCS560C \o SP), Absent, Absent),
      LeafDir(Short, Absent, Absent, Absent),
      LeafDir(Absent, Absent, Ascii(TAB \o s_Camera_Library \o SP), Absent),
      LeafDir(Absent, Absent, Ascii(in_camera_library), Absent),
      LeafDir(Absent, Absent, Short, Absent),
      LeafDir(Absent, Absent, Absent, Bytes),
      LeafDir(Absent, Absent, Absent, Absent),
      IFD(Absent, Absent, Absent, Absent,
          <<IFD(Absent, Absent, Absent, Absent,
                <<LeafDir(Absent, Absent, Absent, Bytes)>>)>>),
      IFD(Absent, Absent, Absent, Absent,
          <<LeafDir(Absent, Absent, Ascii(in_Acme), Absent),
            LeafDir(Absent, Absent, Ascii(s_Camera_Library), Absent)>>) }

\* the directories of which a tree holds at most one
ExtraDirs ==
    { LeafDir(Ascii(m), Absent, Absent, Absent) : m \in MakeInputs }
    \cup { LeafDir(Ascii(s_Kodak), Ascii(m), Absent, Absent) : m \in ModelInputs }
    \cup { LeafDir(Ascii(s_Kodak), Short, Absent, Absent),
           LeafDir(Ascii(s_KODAK), Ascii(s_DCS560C), Absent, Absent),
           LeafDir(Ascii(s_EASTMAN_KODAK_COMPANY), Ascii(s_DCS560C), Absent, Absent),
           LeafDir(Ascii(s_Canon), Ascii(in_DCS560), Absent, Absent),
           LeafDir(Ascii(s_Canon), Short, Absent, Absent) }
    \cup { LeafDir(Absent, Absent, Ascii(s), Absent) : s \in SoftwareInputs }
    \cup { LeafDir(Absent, Ascii(s_DCS560C), Absent, Absent),
           LeafDir(Ascii(s_Canon), Absent, Absent, Bytes),
           LeafDir(Ascii(in_Acme), Absent, Ascii(s_Camera_Library), Absent),
           LeafDir(Ascii(s_Leaf), Absent, Ascii(in_camera_library), Absent),
           IFD(Absent, Absent, Absent, Absent,
               <<LeafDir(Absent, Absent, Absent, Bytes)>>),
           IFD(Absent, Absent, Absent, Absent,
               <<LeafDir(Absent, Absent, Ascii(s_Camera_Library), Absent)>>),
           IFD(Absent, Absent, Absent, Absent,
               <<LeafDir(Ascii(s_Canon), Absent, Absent, Absent)>>),
           IFD(Ascii(in_Acme), Absent, Absent, Absent,
               <<LeafDir(Absent, Absent, Absent, Bytes)>>) }

SeqsUpTo(S, n) == UNION { [1..k -> S] : k \in 0..n }

InsertAt(s, i, d) == SubSeq(s, 1, i - 1) \o <<d>> \o SubSeq(s, i, Len(s))

\* the trees handed to makeDecoder: the empty owner, or a root over up to
\* MaxDirs top-level directories, at most one of them outside CoreDirs
IsInputTree(r) ==
    \/ r = NullRoot
    \/ \E s \in SeqsUpTo(CoreDirs, MaxDirs) : r = TiffRootIFD(s)
    \/ \E s \in SeqsUpTo(CoreDirs, MaxDirs - 1) :
          \E i \in 1..(Len(s) + 1) :
             \E d \in ExtraDirs : r = TiffRootIFD(InsertAt(s, i, d))

InitDispatchVars ==
    /\ pc = "entry"
    /\ owner = "unique_ptr"
    /\ idx = 1
    /\ consulted = <<>>
    /\ selected = None
    /\ rule = None
    /\ ctorErr = NoErr
    /\ result = None
    /\ err = NoErr

\* parseTiff is not running
IdleParse ==
    /\ hdr = [bom |-> "II", magic |-> <<42, 0>>, first |-> 0]
    /\ table = <<>>
    /\ pcP = "idle"
    /\ endian = None
    /\ magic = 0
    /\ rootP = None
    /\ subIFDs = <<>>
    /\ nextIFD = 0
    /\ errP = None

InitDispatch ==
    /\ IsInputTree(root)
    /\ InitDispatchVars
    /\ IdleParse

NextDispatch ==
    \/ MD_Release
    \/ MD_Dng
    \/ MD_Make
    \/ MD_Software
    \/ MD_NoDecoder

SpecDispatch == InitDispatch /\ [][NextDispatch]_vars

---------------------------------------------------------------------------
(* parseTiff *)

\* a range check in place of the allow-list
MagicOkRange(m) == m >= 42 /\ m <= 21330

\* the magic values parseTiff accepts
MagicOk(m) == m = 42 \/ m = 20306 \/ m = 21330 \/ m = 85

\* ByteStream::getShort on two bytes in the established byte order
getShort(b, order) ==
    IF order = "little" THEN b[1] + 256 * b[2] ELSE 256 * b[1] + b[2]

\* isTiffInNativeByteOrder: "II" and "MM" are the two markers
ByteOrderOf(bom) ==
    IF bom = "II" THEN "little" ELSE IF bom = "MM" THEN "big" ELSE None

\* a directory can be constructed at the offsets 1..MaxOff; every other
\* non-zero offset lies outside the buffer
Constructible(off) == off \in DOMAIN table

\* TiffIFD::getNextIFD of the directory constructed at off
getNextIFD(ifd) == ifd.nextIFD

\* TiffIFD(bs, off, parent)
TiffIFD(off) == [offset |-> off, nextIFD |-> table[off]]

\* a walk that also stops at an offset it has already visited
WalkContinuesUnvisited(n) ==
    n # 0 /\ \A i \in 1..Len(subIFDs) : subIFDs[i].offset # n

\* the condition of the walk's for loop
WalkContinues(n) == n # 0

\* the first directory of the list in place of the last
Front(s) == s[1]

\* root->getSubIFDs().back()
Back(s) == s[Len(s)]

\* root->add(ifd)
Add(s, ifd) == Append(s, ifd)

UnchangedFile == UNCHANGED <<hdr, table>>

\* lines 60-62
PT_ByteOrder ==
    /\ pcP = "start"
    /\ IF ByteOrderOf(hdr.bom) = None
       THEN /\ pcP' = "failed"
            /\ errP' = "Failed to parse TIFF endianess information"
            /\ UNCHANGED endian
       ELSE /\ pcP' = "magic"
            /\ endian' = ByteOrderOf(hdr.bom)
            /\ UNCHANGED errP
    /\ UNCHANGED <<magic, rootP, subIFDs, nextIFD>>
    /\ UnchangedFile
    /\ UNCHANGED varsD

\* lines 64-66
PT_Magic ==
    /\ pcP = "magic"
    /\ magic' = getShort(hdr.magic, endian)
    /\ IF MagicOk(magic')
       THEN /\ pcP' = "root"
            /\ UNCHANGED errP
       ELSE /\ pcP' = "failed"
            /\ errP' = "Not a TIFF file (magic 42)"
    /\ UNCHANGED <<endian, rootP, subIFDs, nextIFD>>
    /\ UnchangedFile
    /\ UNCHANGED varsD

\* line 68 and the loop's initialiser on line 69
PT_Root ==
    /\ pcP = "root"
    /\ rootP' = "owned"
    /\ subIFDs' = <<>>
    /\ nextIFD' = hdr.first
    /\ pcP' = "walk"
    /\ UNCHANGED <<endian, magic, errP>>
    /\ UnchangedFile
    /\ UNCHANGED varsD

\* lines 69-71, one iteration; a TiffIFD constructor that throws unwinds
\* through the unique_ptr root, which releases the tree built so far
PT_Walk ==
    /\ pcP = "walk"
    /\ WalkContinues(nextIFD)
    /\ Len(subIFDs) < MaxHops
    /\ IF Constructible(nextIFD)
       THEN /\ subIFDs' = Add(subIFDs, TiffIFD(nextIFD))
            /\ nextIFD' = getNextIFD(Back(subIFDs'))
            /\ UNCHANGED <<pcP, rootP, errP>>
       ELSE /\ pcP' = "failed"
            /\ errP' = "TiffIFD: offset outside the buffer"
            /\ rootP' = "freed"
            /\ subIFDs' = <<>>
            /\ UNCHANGED nextIFD
    /\ UNCHANGED <<endian, magic>>
    /\ UnchangedFile
    /\ UNCHANGED varsD

\* line 73
PT_Return ==
    /\ pcP = "walk"
    /\ ~WalkContinues(nextIFD)
    /\ pcP' = "done"
    /\ rootP' = "returned"
    /\ UNCHANGED <<endian, magic, subIFDs, nextIFD, errP>>
    /\ UnchangedFile
    /\ UNCHANGED varsD

---------------------------------------------------------------------------
(* The buffers parseTiff is run on *)

ByteVals == {0, 42, 43, 79, 82, 83, 85}

Offsets == 0 .. (MaxOff + 1)

\* every marker and magic, over a buffer whose directories all end the chain
Headers ==
    [bom : {"II", "MM", "XX"}, magic : ByteVals \X ByteVals, first : Offsets]

\* the standard little- and big-endian headers
StdHeaders ==
    { [bom |-> "II", magic |-> <<42, 0>>, first |-> f] : f \in Offsets } \cup
    { [bom |-> "MM", magic |-> <<0, 42>>, first |-> f] : f \in Offsets }

Tables == [1..MaxOff -> Offsets]

\* makeDecoder is not running
IdleDispatch ==
    /\ root = NullRoot
    /\ pc = "idle"
    /\ owner = None
    /\ idx = 1
    /\ consulted = <<>>
    /\ selected = None
    /\ rule = None
    /\ ctorErr = NoErr
    /\ result = None
    /\ err = NoErr

InitParse ==
    /\ \/ hdr \in Headers /\ table = [o \in 1..MaxOff |-> 0]
       \/ hdr \in StdHeaders /\ table \in Tables
    /\ pcP = "start"
    /\ endian = None
    /\ magic = 0
    /\ rootP = None
    /\ subIFDs = <<>>
    /\ nextIFD = 0
    /\ errP = None
    /\ IdleDispatch

NextParse ==
    \/ PT_ByteOrder
    \/ PT_Magic
    \/ PT_Root
    \/ PT_Walk
    \/ PT_Return

SpecParse == InitParse /\ [][NextParse]_vars

\* the call runs to completion: no step of parseTiff waits for anything
SpecParseFair == SpecParse /\ WF_vars(NextParse)

---------------------------------------------------------------------------
(* Properties of makeDecoder *)

Final == pc \in {"returned", "failed"}

Running == pc # "idle" /\ ~root.null

\* some directory of the tree, at any depth, holds the tag
RECURSIVE Anywhere(_, _)
Anywhere(ifd, tag) ==
    \/ getEntry(ifd, tag) # Absent
    \/ \E i \in 1..Len(ifd.subIFDs) : Anywhere(ifd.subIFDs[i], tag)

MakeIFDs == getIFDsWithTag(root, MAKE)

\* the strings the Make loop decodes from a directory are decodable
DirDecodes(d) ==
    /\ d.make.type = "ASCII"
    /\ d.model.type \in {"absent", "ASCII"}

TrimmedMake(d) == TrimSpaces(d.make.data)

TrimmedModel(d) == TrimSpaces(d.model.data)

\* C1: a tree holding a DNGVERSION entry in any directory at any depth selects
\* the DNG decoder, whatever Make, Model and Software entries it holds: no
\* directory is consulted for its Make and no other rule selects.
C1_DngWins ==
    (Running /\ Anywhere(root, DNGVERSION)) =>
        /\ selected \in {None, "DngDecoder"}
        /\ rule \in {None, "dng"}
        /\ consulted = <<>>
        /\ Final => (selected = "DngDecoder" /\ rule = "dng")

\* C1 witness: the DNG version sits below the top level, a top-level directory
\* holds a Make that trims to "Canon", and the DNG decoder was returned
C1_Witness ==
    /\ pc = "returned" /\ result = "DngDecoder"
    /\ \A i \in 1..Len(root.subIFDs) : root.subIFDs[i].dng = Absent
    /\ \E i \in 1..Len(root.subIFDs) :
           /\ root.subIFDs[i].make.type = "ASCII"
           /\ TrimmedMake(root.subIFDs[i]) = s_Canon

\* C2: without a DNGVERSION entry, when the first Make-bearing directory's
\* strings decode: a Make trimming to "Canon" selects Cr2; a Make trimming to
\* "Kodak" selects Cr2 when the Model of that directory trims to "DCS560C" and
\* Dcr for any other Model or none.
C2_CanonKodak ==
    (Final /\ Running /\ ~Anywhere(root, DNGVERSION)
       /\ MakeIFDs # <<>> /\ DirDecodes(MakeIFDs[1])) =>
        LET d == MakeIFDs[1]
        IN  /\ TrimmedMake(d) = s_Canon =>
                 (selected = "Cr2Decoder" /\ rule = "make")
            /\ (TrimmedMake(d) = s_Kodak /\ TrimmedModel(d) = s_DCS560C) =>
                 (selected = "Cr2Decoder" /\ rule = "make")
            /\ (TrimmedMake(d) = s_Kodak /\ TrimmedModel(d) # s_DCS560C) =>
                 (selected = "DcrDecoder" /\ rule = "make")

\* C2 witness: a Kodak directory whose stored Model is "DCS560C" with padding
\* was given the Cr2 decoder
C2_Witness ==
    /\ pc = "returned" /\ result = "Cr2Decoder"
    /\ MakeIFDs # <<>>
    /\ TrimmedMake(MakeIFDs[1]) = s_Kodak
    /\ MakeIFDs[1].model.data # s_DCS560C
    /\ TrimmedModel(MakeIFDs[1]) = s_DCS560C

\* C3 (as claimed): whenever parseTiff or makeDecoder fails, the tree is
\* released or was never allocated, and no decoder and no tree is returned.
C3_TreeReleasedOnFailure ==
    /\ pc = "failed" => (owner \in {"freed", "none"} /\ result = None)
    /\ pcP = "failed" => (rootP \in {None, "freed"} /\ subIFDs = <<>>)

\* C4 (as claimed): whichever variant was selected, a failure of its
\* constructor leaves makeDecoder as a TiffParserException with its message.
C4_AlwaysTranslated ==
    (pc = "failed" /\ ctorErr # NoErr) => err = TiffParserException(ctorErr.msg)

\* C4 (amended): a std::runtime_error from the DNG constructor leaves as a
\* TiffParserException with the same message; every other constructor failure
\* leaves makeDecoder as it was thrown, type and message.
C4_DngTranslatedOthersPropagate ==
    (pc = "failed" /\ ctorErr # NoErr) =>
        IF selected = "DngDecoder" /\ IsRuntimeError(ctorErr.type)
        THEN err = [type |-> "TiffParserException", msg |-> ctorErr.msg]
        ELSE err = ctorErr

\* C4 witness: the DNG constructor threw a RawDecoderException and the caller
\* got a TiffParserException with that message
C4_Witness ==
    /\ pc = "failed" /\ selected = "DngDecoder"
    /\ ctorErr.type = "RawDecoderException"
    /\ err.type = "TiffParserException" /\ err.msg = ctorErr.msg

\* C5: without a DNGVERSION entry and without a Make entry anywhere, a first
\* Software entry (depth first) trimming to "Camera Library" selects Mos; with
\* no Software entry, or a first one trimming to anything else, makeDecoder
\* fails with "No decoder found. Sorry.", selects nothing and returns nothing.
C5_SoftwareFallback ==
    (Final /\ Running /\ ~Anywhere(root, DNGVERSION) /\ ~Anywhere(root, MAKE)) =>
        LET sw == getEntryRecursive(root, SOFTWARE)
        IN  /\ (sw.type = "ASCII" /\ TrimSpaces(sw.data) = s_Camera_Library) =>
                 (selected = "MosDecoder" /\ rule = "software")
            /\ (sw = Absent \/ (sw.type = "ASCII" /\ TrimSpaces(sw.data) # s_Camera_Library)) =>
                 /\ pc = "failed"
                 /\ err = [type |-> "TiffParserException",
                           msg |-> "No decoder found. Sorry."]
                 /\ selected = None
                 /\ result = None

\* C5 witness: no Make anywhere, the Software entry sits in a sub-directory
\* with padding around the literal, and the Mos decoder was returned
C5_Witness ==
    /\ pc = "returned" /\ result = "MosDecoder" /\ rule = "software"
    /\ ~Anywhere(root, MAKE)
    /\ \A i \in 1..Len(root.subIFDs) : root.subIFDs[i].software # Ascii(s_Camera_Library)

\* C8 (as claimed): no Make-bearing directory after the first is consulted.
C8_OnlyFirstConsulted ==
    \A k \in 1..Len(consulted) : consulted[k] = 1

\* a directory at which the Make loop ends: a string that does not decode, or
\* a trimmed Make that is one of the table's literals
StopsScan(d) == ~DirDecodes(d) \/ TrimmedMake(d) \in TableMakes

\* C8 (amended): the Make-bearing directories are consulted in order up to and
\* including the first whose trimmed Make equals a literal of the table (or
\* whose Make or Model does not decode); none after it is consulted; when
\* none matches, all are consulted and no Make rule selects.
C8_ScanUntilFirstMatch ==
    (Final /\ Running /\ ~Anywhere(root, DNGVERSION)) =>
        LET n == Len(MakeIFDs)
            S == { i \in 1..n : StopsScan(MakeIFDs[i]) }
            k == IF S = {} THEN n ELSE CHOOSE i \in S : \A j \in S : i <= j
        IN  /\ consulted = [i \in 1..k |-> i]
            /\ S = {} => rule # "make"
            /\ (S # {} /\ DirDecodes(MakeIFDs[k])) =>
                 (rule = "make" /\ selected # None)

\* C8 witness: the first Make-bearing directory matched no rule, the second
\* was consulted and selected a decoder
C8_Witness ==
    /\ Final /\ rule = "make"
    /\ Len(consulted) >= 2
    /\ TrimmedMake(MakeIFDs[1]) \notin TableMakes

\* C10: matching is exact equality on the trimmed Make: "Kodak", "KODAK" and
\* "EASTMAN KODAK COMPANY" select Dcr (Cr2 for Model "DCS560C"), Dcs and Kdc;
\* a Make rule selects only at a directory whose trimmed Make is a literal
\* of the table, so a Make differing in case, or containing or contained in a
\* literal, selects none.
C10_ExactMatch ==
    (Final /\ Running /\ ~Anywhere(root, DNGVERSION)) =>
        /\ (MakeIFDs # <<>> /\ DirDecodes(MakeIFDs[1])) =>
             LET d == MakeIFDs[1]
             IN  /\ TrimmedMake(d) = s_Kodak =>
                      selected = (IF TrimmedModel(d) = s_DCS560C
                                  THEN "Cr2Decoder" ELSE "DcrDecoder")
                 /\ TrimmedMake(d) = s_KODAK => selected = "DcsDecoder"
                 /\ TrimmedMake(d) = s_EASTMAN_KODAK_COMPANY => selected = "KdcDecoder"
        /\ rule = "make" =>
             TrimmedMake(MakeIFDs[consulted[Len(consulted)]]) \in TableMakes
        /\ (\A i \in 1..Len(MakeIFDs) :
                DirDecodes(MakeIFDs[i]) /\ TrimmedMake(MakeIFDs[i]) \notin TableMakes)
             => rule # "make"

\* C10 witness: a Make that is a literal in another letter case and a Make
\* that contains a literal were both consulted, and no Make rule selected
C10_Witness ==
    /\ Final /\ Running /\ rule # "make"
    /\ \E i \in 1..Len(consulted) : \E lit \in TableMakes :
           /\ TrimmedMake(MakeIFDs[consulted[i]]) # lit
           /\ ToUpper(TrimmedMake(MakeIFDs[consulted[i]])) = ToUpper(lit)
    /\ \E i \in 1..Len(consulted) : \E lit \in TableMakes :
           /\ TrimmedMake(MakeIFDs[consulted[i]]) # lit
           /\ IsInfix(lit, TrimmedMake(MakeIFDs[consulted[i]]))

---------------------------------------------------------------------------
(* Properties of parseTiff *)

\* the magic as the two bytes spell it in the marker's byte order
MagicValue ==
    IF hdr.bom = "II" THEN hdr.magic[1] + 256 * hdr.magic[2]
    ELSE 256 * hdr.magic[1] + hdr.magic[2]

HeaderAccepted ==
    /\ hdr.bom \in {"II", "MM"}
    /\ MagicValue \in {42, 20306, 21330, 85}

\* where the chain from offset off ends within fuel hops: at a zero offset,
\* at an offset where no directory can be constructed, or never
RECURSIVE EndOf(_, _)
EndOf(off, fuel) ==
    IF off = 0 THEN "zero"
    ELSE IF off \notin 1..MaxOff THEN "bad"
    ELSE IF fuel = 0 THEN "cycle"
    ELSE EndOf(table[off], fuel - 1)

\* the offsets of the chain from off, up to fuel of them
RECURSIVE ChainFrom(_, _)
ChainFrom(off, fuel) ==
    IF off = 0 \/ off \notin 1..MaxOff \/ fuel = 0 THEN <<>>
    ELSE <<off>> \o ChainFrom(table[off], fuel - 1)

ZeroTerminated == EndOf(hdr.first, MaxOff) = "zero"

Cyclic == EndOf(hdr.first, MaxOff) = "cycle"

OffsetsOf(s) == [i \in 1..Len(s) |-> s[i].offset]

\* C6: after a valid marker the magic is accepted exactly when it is 42,
\* 0x4f52, 0x5352 or 0x55; any other value fails with "Not a TIFF file"
\* before the root or any directory is constructed.
C6_MagicAllowList ==
    (pcP \notin {"idle", "start", "magic"} /\ hdr.bom \in {"II", "MM"}) =>
        IF MagicValue \in {42, 20306, 21330, 85}
        THEN /\ errP # "Not a TIFF file (magic 42)"
             /\ pcP \in {"root", "walk", "done", "failed"}
             /\ pcP = "failed" => rootP = "freed"
        ELSE /\ pcP = "failed"
             /\ errP = "Not a TIFF file (magic 42)"
             /\ rootP = None
             /\ subIFDs = <<>>

\* C6 witness: 0x5252, which lies between two accepted values, was rejected
C6_Witness ==
    /\ pcP = "failed" /\ magic = 21074
    /\ errP = "Not a TIFF file (magic 42)"

\* C7: on a chain of k directories ending in a zero offset the walk never
\* fails, the top-level list is at every moment the first directories of the
\* chain in chain order, each built at the offset stored in its predecessor,
\* and the root returned holds exactly the k of them.
C7_ChainOrder ==
    (pcP \in {"walk", "done", "failed"} /\ HeaderAccepted /\ ZeroTerminated) =>
        LET chain == ChainFrom(hdr.first, MaxOff)
        IN  /\ pcP # "failed"
            /\ Len(subIFDs) <= Len(chain)
            /\ OffsetsOf(subIFDs) = SubSeq(chain, 1, Len(subIFDs))
            /\ \A i \in 2..Len(subIFDs) : subIFDs[i].offset = subIFDs[i-1].nextIFD
            /\ pcP = "done" =>
                 /\ rootP = "returned"
                 /\ OffsetsOf(subIFDs) = chain

\* C7 witness: a returned chain of three directories not stored in offset order
C7_Witness ==
    /\ pcP = "done" /\ Len(subIFDs) >= 3
    /\ subIFDs[1].offset > subIFDs[2].offset

\* C9: the walk returns only on reading a zero offset and appends one directory
\* per hop; a chain that reaches zero is walked to the end; a chain that
\* leads back to a directory already visited is never left, neither by a
\* return nor by a failure, and goes on appending.
C9_WalkStopsOnlyAtZero ==
    /\ [](pcP = "done" => nextIFD = 0)
    /\ [][(pcP = "walk" /\ nextIFD # 0) =>
             \/ pcP' = "failed"
             \/ pcP' = "walk" /\ Len(subIFDs') = Len(subIFDs) + 1]_vars
    /\ [](Cyclic /\ HeaderAccepted => pcP \notin {"done", "failed"})
    /\ (HeaderAccepted /\ ZeroTerminated) ~> (pcP = "done")
    /\ (HeaderAccepted /\ Cyclic) ~> (pcP = "walk" /\ Len(subIFDs) = MaxHops)

\* C9 witness: on a cyclic chain the list holds more directories than there
\* are offsets to construct one at
C9_Witness ==
    /\ pcP = "walk" /\ Cyclic
    /\ Len(subIFDs) > MaxOff
    /\ \E i, j \in 1..Len(subIFDs) : i # j /\ subIFDs[i].offset = subIFDs[j].offset

=============================================================================
